---------------------------- MODULE Spec2Model ----------------------------
(***************************************************************************)
(* Verse reconstruction of ApPlautus (src/visualizer.py):                  *)
(*   reconstruct_units(data, mask)  expands the mask's word-variant        *)
(*                                  sequence into syllable units;          *)
(*   render_units(units, ict, acc)  walks the units left to right with the *)
(*                                  running position global_idx and emits  *)
(*                                  one column per syllable.               *)
(* The two calls of lines 406-407 are modelled as one sequential process;  *)
(* every loop iteration is one step.                                       *)
(***************************************************************************)
EXTENDS Integers, Sequences, FiniteSets, TLC

(***************************************************************************)
(* Bounds of the explored inputs.                                          *)
(***************************************************************************)
\* longest word-variant sequence of a mask
MaxSeq == 2
\* largest position listed in a mask's index lists
MaxPos == 2

(***************************************************************************)
(* JSON values, as json.load delivers them to the syllable fields.         *)
(***************************************************************************)
JBool(b) == [t |-> "bool", b |-> b, n |-> 0, s |-> ""]
JNum(n)  == [t |-> "num",  b |-> FALSE, n |-> n, s |-> ""]
JStr(s)  == [t |-> "str",  b |-> FALSE, n |-> 0, s |-> s]
\* dict.get of an absent key
JNull    == [t |-> "null", b |-> FALSE, n |-> 0, s |-> ""]

\* Python's bool(x), the only normalisation render_units applies (256-257)
PyBool(x) ==
    CASE x.t = "bool" -> x.b
      [] x.t = "num"  -> x.n # 0
      [] x.t = "str"  -> x.s # ""
      [] OTHER        -> FALSE

\* 10**9, the sort key of a syllable without syllable_number (line 219)
DefaultSyllableNumber == 1000000000


(***************************************************************************)
(* The verse record (data).  A syllable is text, syllable_number (absent   *)
(* when has_number is false), length and elision as raw JSON values.  The  *)
(* texts hold none of & < >, on which html_escape (228-229) changes        *)
(* nothing.                                                                *)
(***************************************************************************)
Syl(num, text, fl) ==
    [has_number |-> TRUE, syllable_number |-> num, text |-> text,
     length |-> fl.length, elision |-> fl.elision]
SylNoNumber(text, fl) ==
    [has_number |-> FALSE, syllable_number |-> 0, text |-> text,
     length |-> fl.length, elision |-> fl.elision]

\* The word table: word 1 has variant 1 (three syllables, stored out of
\* order, one without a number) ; word 2 has variant 1 with no syllables.
\* fl[i] gives the raw length/elision values of syllable i.
Words(fl) ==
    << [word_number |-> 1, text |-> "arma",
        variants |-> << [variant_number |-> 1,
                         syllables |-> << SylNoNumber("que", fl[3]),
                                          Syl(2, "ma", fl[2]),
                                          Syl(1, "ar", fl[1]) >>] >>],
       [word_number |-> 2, text |-> "vi",
        variants |-> << [variant_number |-> 1, syllables |-> << >>] >>] >>

\* word-variant pairs a mask may name: resolved, missing variant, resolved
\* without syllables, missing word
Pairs ==
    { [word |-> 1, variant |-> 1], [word |-> 1, variant |-> 2],
      [word |-> 2, variant |-> 1], [word |-> 9, variant |-> 1] }

SeqsUpTo(S, n) == UNION { [1..m -> S] : m \in 0..n }

Positions == SUBSET (1..MaxPos)

\* the mask strings: empty, or letters of both cases and a foreign one
MaskStrings == { << >>, << "l", "S", "x" >> }

BoolFlag(l, e) == [length |-> JBool(l), elision |-> JBool(e)]

\* length/elision values as JSON booleans: every elision pattern
BoolFlags ==
    { << BoolFlag(TRUE, e[1]), BoolFlag(FALSE, e[2]), BoolFlag(TRUE, e[3]) >> :
        e \in [1..3 -> BOOLEAN] }

\* raw JSON values a length or elision field may hold
Tokens ==
    { JBool(TRUE), JBool(FALSE), JNull, JNum(0), JNum(1), JNum(2) }
    \cup { JStr(s) : s \in { "true", "TRUE", "1", "yes", "y", "Y",
                             "false", "0", "no", "", "maybe" } }

\* the first syllable carries arbitrary raw values
TokenFlags ==
    { << [length |-> l, elision |-> e], BoolFlag(FALSE, FALSE), BoolFlag(TRUE, TRUE) >> :
        l \in Tokens, e \in Tokens }

MaskRec(wv, ic, ac, fb, hi, pm) ==
    [wv |-> wv, icted_syllables |-> ic, accented_syllables |-> ac,
     foot_boundary_after |-> fb, hiatus_after |-> hi, prosodic_mask |-> pm]

(***************************************************************************)
(* Helpers of reconstruct_units.                                           *)
(***************************************************************************)
\* idx_by_num (180-186): the dict from items[i][key] to the item; a later
\* item with the same number replaces an earlier one
idx_by_num(items, key) ==
    [ n \in { items[i][key] : i \in DOMAIN items } |->
        items[ CHOOSE i \in DOMAIN items :
                  /\ items[i][key] = n
                  /\ \A j \in DOMAIN items : items[j][key] = n => j <= i ] ]

\* mask_to_dash_u (192-194), character by character
mask_to_dash_u(mask_str) ==
    [ i \in DOMAIN mask_str |->
        IF mask_str[i] \in {"l", "L"} THEN "-"
        ELSE IF mask_str[i] \in {"s", "S"} THEN "u"
        ELSE mask_str[i] ]

\* the key of the sort of line 219
SortKey(s) == IF s.has_number THEN s.syllable_number ELSE DefaultSyllableNumber

\* x placed behind every element of the sorted list whose key is not larger
InsertSorted(srt, x) ==
    LET p == Cardinality({ i \in DOMAIN srt : SortKey(srt[i]) <= SortKey(x) })
    IN  SubSeq(srt, 1, p) \o << x >> \o SubSeq(srt, p + 1, Len(srt))

\* the syllables left in stored order
sylls_unsorted(sylls) == sylls

\* sorted(sylls, key=...) of line 219: a stable sort by SortKey
RECURSIVE sylls_sorted(_)
sylls_sorted(sylls) ==
    IF sylls = << >> THEN << >>
    ELSE InsertSorted(sylls_sorted(SubSeq(sylls, 1, Len(sylls) - 1)),
                      sylls[Len(sylls)])

Unit(wnum, vnum, text, sylls) ==
    [word_number |-> wnum, variant_number |-> vnum, word_text |-> text,
     syllables |-> sylls]

\* line 210
MissingWordUnit(wnum, vnum) ==
    Unit(wnum, vnum, "[missing word #" \o ToString(wnum) \o "]", << >>)

\* the word's own text as the label
MissingVariantUnit_Unmarked(w, wnum, vnum) == Unit(wnum, vnum, w.text, << >>)

\* line 216
MissingVariantUnit(w, wnum, vnum) ==
    Unit(wnum, vnum, w.text \o "[missing variant #" \o ToString(vnum) \o "]", << >>)

\* lines 218-220
ResolvedUnit(w, v, wnum, vnum) ==
    Unit(wnum, vnum, w.text, sylls_sorted(v.syllables))

(***************************************************************************)
(* Helpers of render_units.                                                *)
(***************************************************************************)
\* line 256
is_elide(syl) == PyBool(syl.elision)
\* line 257
is_long(syl) == PyBool(syl.length)

\* a gap before the first unit too
NeedsGap_Always(u) == u >= 1

\* line 244, with the units numbered from 1
NeedsGap(u) == u > 1

\* the marker chosen from the length alone
mark_char_IgnoringElision(long, elide) == IF long THEN "-" ELSE "u"

\* line 258
mark_char(long, elide) ==
    IF long /\ ~elide THEN "-"
    ELSE IF ~long /\ ~elide THEN "u"
    ELSE "&nbsp;"

\* the ictus branch tested before the both branch
classes_IctusFirst(elide, accent, ictus) ==
    IF ~elide
    THEN IF ictus THEN << "syl", "icted" >>
         ELSE IF accent THEN << "syl", "accent" >>
         ELSE << "syl" >>
    ELSE << "syl", "elide" >>

\* lines 260-280: the CSS classes of the chip
classes(elide, accent, ictus) ==
    IF ~elide
    THEN IF accent /\ ictus THEN << "syl", "both", "accent" >>
         ELSE IF accent THEN << "syl", "accent" >>
         ELSE IF ictus THEN << "syl", "icted" >>
         ELSE << "syl" >>
    ELSE << "syl", "elide" >>

\* lines 261-280: the title of the chip
title_bits(long, elide, accent, ictus) ==
    IF ~elide
    THEN << (IF long THEN "long" ELSE "short") >>
         \o (IF accent /\ ictus THEN << "accent", "ictus" >>
             ELSE IF accent THEN << "accent" >>
             ELSE IF ictus THEN << "ictus" >>
             ELSE << >>)
    ELSE << "elision" >>

\* lines 256-287: the column of one syllable at position idx.  syl and idx
\* are kept beside the emitted markup to name what the column was made of.
SyllableColumn(syl, idx, ict, acc) ==
    LET elide  == is_elide(syl)
        long   == is_long(syl)
        accent == idx \in acc
        ictus  == idx \in ict
    IN  [kind |-> "syl",
         mark_char |-> mark_char(long, elide),
         classes |-> classes(elide, accent, ictus),
         title |-> title_bits(long, elide, accent, ictus),
         text |-> syl.text,
         idx |-> idx,
         syl |-> syl]

\* lines 247-251
PlaceholderColumn(unit) ==
    [kind |-> "placeholder", word_number |-> unit.word_number,
     variant_number |-> unit.variant_number, text |-> unit.word_text]

\* line 245
WordGap == [kind |-> "word-gap"]
\* line 242
OpenDiv == [kind |-> "open"]
\* line 289
CloseDiv == [kind |-> "close"]

(***************************************************************************)
(* State.                                                                  *)
(***************************************************************************)
VARIABLES
    words,             \* data["words"]
    mask,              \* the selected mask record
    pc,                \* "reconstruct", "render" or "done"
    units,             \* reconstruct_units: the units appended so far
    ictus_positions,   \* ict of line 222
    accent_positions,  \* acc of line 223
    mask_ls,           \* line 224
    mask_du,           \* line 225
    ui,                \* render_units: the unit at hand, from 1
    si,                \* syllables of that unit already rendered
    gap_done,          \* the word gap of that unit has been emitted
    global_idx,        \* line 240
    parts              \* line 239

vars == << words, mask, pc, units, ictus_positions, accent_positions,
           mask_ls, mask_du, ui, si, gap_done, global_idx, parts >>

resolver_vars == << units, ictus_positions, accent_positions, mask_ls, mask_du >>
render_vars == << ui, si, gap_done, global_idx, parts >>

\* the state at line 406, before the first call, for one verse and mask
InitWith(fl, m) ==
    /\ words = Words(fl)
    /\ mask = m
    /\ pc = "reconstruct"
    /\ units = << >>
    /\ ictus_positions = {}
    /\ accent_positions = {}
    /\ mask_ls = << >>
    /\ mask_du = << >>
    /\ ui = 1
    /\ si = 0
    /\ gap_done = FALSE
    /\ global_idx = 0
    /\ parts = << >>

\* The explored (verse, mask) inputs: boolean flags with every sequence and
\* every choice of one pair of index lists or of the mask string, and raw
\* JSON values in the flags on two sequences.
Init ==
    \/ \E fl \in BoolFlags, wv \in SeqsUpTo(Pairs, MaxSeq),
          ic \in Positions, ac \in Positions :
          InitWith(fl, MaskRec(wv, ic, ac, {}, {}, << "l", "S", "x" >>))
    \/ \E fl \in BoolFlags, wv \in SeqsUpTo(Pairs, MaxSeq),
          fb \in Positions, hi \in Positions :
          InitWith(fl, MaskRec(wv, {}, {}, fb, hi, << "l", "S", "x" >>))
    \/ \E fl \in BoolFlags, wv \in SeqsUpTo(Pairs, MaxSeq), pm \in MaskStrings :
          InitWith(fl, MaskRec(wv, {}, {}, {}, {}, pm))
    \/ \E fl \in TokenFlags,
          wv \in { << [word |-> 1, variant |-> 1] >>,
                   << [word |-> 9, variant |-> 1], [word |-> 1, variant |-> 1] >> },
          ic \in Positions, ac \in Positions :
          InitWith(fl, MaskRec(wv, ic, ac, {}, {}, << "l", "S", "x" >>))

(***************************************************************************)
(* reconstruct_units (196-226): one step per pair of the sequence.         *)
(***************************************************************************)
\* the pair the loop of line 205 is at
NextPair == mask.wv[Len(units) + 1]

InLoop == pc = "reconstruct" /\ Len(units) < Len(mask.wv)

\* lines 206-211: no word has the number
ReconstructMissingWord ==
    /\ InLoop
    /\ LET wnum == NextPair.word
           vnum == NextPair.variant
           words_by == idx_by_num(words, "word_number")
       IN  /\ wnum \notin DOMAIN words_by
           /\ units' = Append(units, MissingWordUnit(wnum, vnum))
    /\ UNCHANGED << words, mask, pc, ictus_positions, accent_positions,
                    mask_ls, mask_du, render_vars >>

\* lines 206-217: the word has no variant of the number
ReconstructMissingVariant ==
    /\ InLoop
    /\ LET wnum == NextPair.word
           vnum == NextPair.variant
           words_by == idx_by_num(words, "word_number")
       IN  /\ wnum \in DOMAIN words_by
           /\ LET w == words_by[wnum]
                  v_by == idx_by_num(w.variants, "variant_number")
              IN  /\ vnum \notin DOMAIN v_by
                  /\ units' = Append(units, MissingVariantUnit(w, wnum, vnum))
    /\ UNCHANGED << words, mask, pc, ictus_positions, accent_positions,
                    mask_ls, mask_du, render_vars >>

\* lines 206-220: word and variant found
ReconstructResolved ==
    /\ InLoop
    /\ LET wnum == NextPair.word
           vnum == NextPair.variant
           words_by == idx_by_num(words, "word_number")
       IN  /\ wnum \in DOMAIN words_by
           /\ LET w == words_by[wnum]
                  v_by == idx_by_num(w.variants, "variant_number")
              IN  /\ vnum \in DOMAIN v_by
                  /\ units' = Append(units, ResolvedUnit(w, v_by[vnum], wnum, vnum))
    /\ UNCHANGED << words, mask, pc, ictus_positions, accent_positions,
                    mask_ls, mask_du, render_vars >>

\* lines 222-226 and 239-242: the return of reconstruct_units and the entry
\* of render_units
ReconstructReturn ==
    /\ pc = "reconstruct"
    /\ Len(units) = Len(mask.wv)
    /\ ictus_positions' = mask.icted_syllables
    /\ accent_positions' = mask.accented_syllables
    /\ mask_ls' = mask.prosodic_mask
    /\ mask_du' = mask_to_dash_u(mask.prosodic_mask)
    /\ parts' = << OpenDiv >>
    /\ global_idx' = 0
    /\ ui' = 1
    /\ si' = 0
    /\ gap_done' = FALSE
    /\ pc' = "render"
    /\ UNCHANGED << words, mask, units >>

(***************************************************************************)
(* render_units (231-290): one step per emitted part.                      *)
(***************************************************************************)
InUnit == pc = "render" /\ ui <= Len(units)

\* lines 244-245
RenderWordGap ==
    /\ InUnit
    /\ NeedsGap(ui)
    /\ ~gap_done
    /\ parts' = Append(parts, WordGap)
    /\ gap_done' = TRUE
    /\ UNCHANGED << words, mask, pc, resolver_vars, ui, si, global_idx >>

\* lines 246-252
RenderPlaceholder ==
    /\ InUnit
    /\ NeedsGap(ui) => gap_done
    /\ units[ui].syllables = << >>
    /\ parts' = Append(parts, PlaceholderColumn(units[ui]))
    /\ ui' = ui + 1
    /\ si' = 0
    /\ gap_done' = FALSE
    /\ UNCHANGED << words, mask, pc, resolver_vars, global_idx >>

\* lines 254-287: one iteration of the inner loop
RenderSyllable ==
    /\ InUnit
    /\ NeedsGap(ui) => gap_done
    /\ si < Len(units[ui].syllables)
    /\ LET syl == units[ui].syllables[si + 1]
       IN  /\ global_idx' = global_idx + 1
           /\ parts' = Append(parts, SyllableColumn(syl, global_idx + 1,
                                                    ictus_positions, accent_positions))
    /\ IF si + 1 = Len(units[ui].syllables)
       THEN ui' = ui + 1 /\ si' = 0 /\ gap_done' = FALSE
       ELSE ui' = ui /\ si' = si + 1 /\ gap_done' = gap_done
    /\ UNCHANGED << words, mask, pc, resolver_vars >>

\* lines 289-290
RenderReturn ==
    /\ pc = "render"
    /\ ui > Len(units)
    /\ parts' = Append(parts, CloseDiv)
    /\ pc' = "done"
    /\ UNCHANGED << words, mask, resolver_vars, ui, si, gap_done, global_idx >>

Next ==
    \/ ReconstructMissingWord
    \/ ReconstructMissingVariant
    \/ ReconstructResolved
    \/ ReconstructReturn
    \/ RenderWordGap
    \/ RenderPlaceholder
    \/ RenderSyllable
    \/ RenderReturn

Spec == Init /\ [][Next]_vars

(***************************************************************************)
(* Reading the emitted parts.                                              *)
(***************************************************************************)
Has(seq, x) == \E i \in DOMAIN seq : seq[i] = x

IsSyl(p) == p.kind = "syl"

\* positions of the syllable columns in parts
SylParts == { i \in DOMAIN parts : IsSyl(parts[i]) }

\* the syllable columns emitted so far, in traversal order
Columns == SelectSeq(parts, IsSyl)

Rendering == pc \in {"render", "done"}

\* the styling classes of a chip, "syl" itself left out
Styles(p) == { p.classes[i] : i \in DOMAIN p.classes } \ {"syl"}

\* the category a chip shows
Category(p) ==
    IF Has(p.classes, "elide") THEN "elided"
    ELSE IF Has(p.classes, "both") THEN "both"
    ELSE IF Has(p.classes, "accent") THEN "accent"
    ELSE IF Has(p.classes, "icted") THEN "ictus"
    ELSE "plain"

\* the emitted markup shows a foot boundary after part i
FootBoundaryShown(i) ==
    \/ Has(parts[i].classes, "foot")
    \/ i < Len(parts) /\ parts[i + 1].kind = "foot-boundary"

(***************************************************************************)
(* The annotation rules as the specification words them (sections 4.1 and  *)
(* 4.2), to state the claims against.                                      *)
(***************************************************************************)
Lower(s) ==
    CASE s = "TRUE" -> "true"
      [] s = "Y"    -> "y"
      [] OTHER      -> s

\* true-like tokens of section 4.1
Truthy(x) ==
    CASE x.t = "bool" -> x.b
      [] x.t = "num"  -> x.n # 0
      [] x.t = "str"  -> Lower(x.s) \in {"true", "1", "yes", "y"}
      [] OTHER        -> FALSE

\* effIdx of section 4.2 after the first n emitted syllable columns:
\* a syllable is skipped when its elision flag is true-like and its
\* candidate index is not in hiatus_after
RECURSIVE EffIdxAfter(_)
EffIdxAfter(n) ==
    IF n = 0 THEN 0
    ELSE LET e == EffIdxAfter(n - 1)
         IN  IF Truthy(Columns[n].syl.elision) /\ (e + 1) \notin mask.hiatus_after
             THEN e ELSE e + 1

CandidateIdx(n) == EffIdxAfter(n - 1) + 1

FinalElided(n) ==
    Truthy(Columns[n].syl.elision) /\ CandidateIdx(n) \notin mask.hiatus_after

(***************************************************************************)
(* C1.  The running index counts only non-elided syllables: after each     *)
(* syllable the counter equals the number of non-elided syllables          *)
(* processed so far, and the non-elided syllables are tested with the      *)
(* indices 1, 2, 3, ... in traversal order.                                *)
(* Fails: line 255 advances global_idx for every syllable, before the      *)
(* elision flag is read.                                                   *)
(***************************************************************************)
C1_IndexCountsNonElided ==
    Rendering =>
        /\ global_idx = EffIdxAfter(Len(Columns))
        /\ \A n \in DOMAIN Columns :
              ~FinalElided(n) => Columns[n].idx = EffIdxAfter(n)

(***************************************************************************)
(* C2.  Hiatus overrides elision: a syllable whose elision flag is true    *)
(* and whose candidate index is in hiatus_after is rendered as a counted,  *)
(* non-elided syllable with a long/short marker and a category other than  *)
(* elided.                                                                 *)
(* Fails: neither reconstruct_units nor render_units reads hiatus_after.   *)
(***************************************************************************)
C2_HiatusOverridesElision ==
    Rendering =>
        \A n \in DOMAIN Columns :
            (Truthy(Columns[n].syl.elision) /\ CandidateIdx(n) \in mask.hiatus_after)
            => /\ Category(Columns[n]) \in {"plain", "accent", "ictus", "both"}
               /\ Columns[n].mark_char \in {"-", "u"}

(***************************************************************************)
(* C3.  Every syllable rendered as non-elided, tested with index i, gets   *)
(* exactly the styling of its category by precedence: both (with the       *)
(* accent tick, never the red ictus class) when i is accented and icted,   *)
(* else accent, else ictus, else plain.                                    *)
(***************************************************************************)
C3_CategoryPrecedence ==
    Rendering =>
        \A i \in SylParts :
            ~Has(parts[i].classes, "elide") =>
                LET acc == parts[i].idx \in mask.accented_syllables
                    ict == parts[i].idx \in mask.icted_syllables
                IN  /\ Category(parts[i]) =
                          (IF acc /\ ict THEN "both"
                           ELSE IF acc THEN "accent"
                           ELSE IF ict THEN "ictus"
                           ELSE "plain")
                    /\ Styles(parts[i]) =
                          (IF acc /\ ict THEN {"both", "accent"}
                           ELSE IF acc THEN {"accent"}
                           ELSE IF ict THEN {"icted"}
                           ELSE {})

\* a syllable at a position both accented and icted has been rendered
C3_Witness ==
    \E i \in SylParts :
        /\ parts[i].idx \in mask.accented_syllables \cap mask.icted_syllables
        /\ Category(parts[i]) = "both"

(***************************************************************************)
(* C4.  The length marker is absent exactly when the syllable is elided,   *)
(* and otherwise is "-" for a long and "u" for a short syllable; an elided *)
(* syllable has the elided styling alone, whatever the index lists hold.   *)
(* Elided and long are the flags as the pass reads them (256-257).         *)
(***************************************************************************)
C4_MarkerAndElision ==
    Rendering =>
        \A i \in SylParts :
            LET p == parts[i]
                elided == PyBool(p.syl.elision)
                long == PyBool(p.syl.length)
            IN  /\ (p.mark_char = "&nbsp;") <=> elided
                /\ ~elided => p.mark_char = (IF long THEN "-" ELSE "u")
                /\ elided => Category(p) = "elided" /\ Styles(p) = {"elide"}
                /\ ~elided => Category(p) # "elided"

\* an elided syllable at a position both accented and icted has been rendered
C4_Witness ==
    \E i \in SylParts :
        /\ PyBool(parts[i].syl.elision)
        /\ parts[i].idx \in mask.accented_syllables \cap mask.icted_syllables
        /\ \E j \in SylParts : ~PyBool(parts[j].syl.elision) /\ PyBool(parts[j].syl.length)

(***************************************************************************)
(* C5.  Every syllable's annotation says whether a foot boundary follows:  *)
(* for a non-elided syllable with effective index i exactly when i is in   *)
(* foot_boundary_after, for an elided syllable never.                      *)
(* Fails: foot_boundary_after is never read and nothing is emitted for a   *)
(* foot boundary.                                                          *)
(***************************************************************************)
C5_FootBoundaryAfter ==
    Rendering =>
        \A i \in SylParts :
            LET n == Cardinality({ j \in SylParts : j <= i })
            IN  FootBoundaryShown(i) <=>
                    (~FinalElided(n) /\ EffIdxAfter(n) \in mask.foot_boundary_after)

(***************************************************************************)
(* The verse's tables read directly, without the dictionaries of           *)
(* idx_by_num.                                                             *)
(***************************************************************************)
WordNumbers == { words[i].word_number : i \in DOMAIN words }

TheWord(n) == words[CHOOSE i \in DOMAIN words : words[i].word_number = n]

VariantNumbers(w) == { w.variants[j].variant_number : j \in DOMAIN w.variants }

TheVariant(w, m) ==
    w.variants[CHOOSE j \in DOMAIN w.variants : w.variants[j].variant_number = m]

WordMissing(pair) == pair.word \notin WordNumbers

VariantMissing(pair) ==
    /\ pair.word \in WordNumbers
    /\ pair.variant \notin VariantNumbers(TheWord(pair.word))

Resolvable(pair) ==
    /\ pair.word \in WordNumbers
    /\ pair.variant \in VariantNumbers(TheWord(pair.word))

\* how often x occurs in seq
Count(seq, x) == Cardinality({ i \in DOMAIN seq : seq[i] = x })

(***************************************************************************)
(* C6.  reconstruct_units never stops at an unresolvable reference: a pair *)
(* naming no word gives a unit without syllables labelled with the missing *)
(* word number, a pair naming a word but none of its variants gives a unit *)
(* without syllables labelled with the word's text and a missing-variant   *)
(* marker, and the function returns only when every pair has its unit, the *)
(* resolvable ones with their word's text and their variant's syllables.   *)
(***************************************************************************)
C6_MissingReferencesDegrade ==
    /\ Len(units) <= Len(mask.wv)
    /\ Rendering => Len(units) = Len(mask.wv)
    /\ \A k \in DOMAIN units :
          LET pair == mask.wv[k]
          IN  /\ WordMissing(pair) =>
                    /\ units[k].syllables = << >>
                    /\ units[k].word_text =
                          "[missing word #" \o ToString(pair.word) \o "]"
              /\ VariantMissing(pair) =>
                    /\ units[k].syllables = << >>
                    /\ units[k].word_text =
                          TheWord(pair.word).text
                              \o "[missing variant #" \o ToString(pair.variant) \o "]"
              /\ Resolvable(pair) =>
                    /\ units[k].word_text = TheWord(pair.word).text
                    /\ Len(units[k].syllables) =
                          Len(TheVariant(TheWord(pair.word), pair.variant).syllables)

\* an unresolvable pair has been passed and a later pair resolved with its
\* syllables
C6_Witness ==
    /\ pc = "done"
    /\ \E k \in DOMAIN units, j \in DOMAIN units :
          /\ k < j
          /\ WordMissing(mask.wv[k]) \/ VariantMissing(mask.wv[k])
          /\ units[k].syllables = << >>
          /\ units[j].syllables # << >>

(***************************************************************************)
(* C7.  One unit per pair of the word-variant sequence, in its order: the  *)
(* k-th unit carries the numbers of the k-th pair, repeated pairs          *)
(* included; the syllables of a resolved unit ascend by syllable_number    *)
(* and are a permutation of the selected variant's syllables.              *)
(***************************************************************************)
C7_UnitsFollowSequence ==
    /\ Len(units) <= Len(mask.wv)
    /\ Rendering => Len(units) = Len(mask.wv)
    /\ \A k \in DOMAIN units :
          LET pair == mask.wv[k]
              got == units[k].syllables
          IN  /\ units[k].word_number = pair.word
              /\ units[k].variant_number = pair.variant
              /\ \A i \in DOMAIN got, j \in DOMAIN got :
                    i < j => SortKey(got[i]) <= SortKey(got[j])
              /\ Resolvable(pair) =>
                    LET stored == TheVariant(TheWord(pair.word), pair.variant).syllables
                    IN  /\ Len(got) = Len(stored)
                        /\ \A i \in DOMAIN stored :
                              Count(got, stored[i]) = Count(stored, stored[i])

\* the same pair resolved twice, its syllables stored out of order
C7_Witness ==
    /\ pc = "done"
    /\ Len(units) = 2
    /\ mask.wv[1] = mask.wv[2]
    /\ Resolvable(mask.wv[2])
    /\ Len(units[2].syllables) = 3
    /\ units[2].syllables # TheVariant(TheWord(mask.wv[2].word), mask.wv[2].variant).syllables

(***************************************************************************)
(* C8.  length and elision are normalised to booleans: true exactly for    *)
(* boolean true, a non-zero number or one of "true", "1", "yes", "y" in    *)
(* any letter case, false for anything else; normalising a normalised      *)
(* value changes nothing.                                                  *)
(* Fails: lines 256-257 apply bool(), under which every non-empty string   *)
(* ("false", "0", "no", ...) is true.                                      *)
(***************************************************************************)
C8_FlagsNormalized ==
    Rendering =>
        \A i \in SylParts :
            LET p == parts[i]
            IN  /\ (Category(p) = "elided") <=> Truthy(p.syl.elision)
                /\ Category(p) # "elided" =>
                      ((p.mark_char = "-") <=> Truthy(p.syl.length))
                /\ Truthy(JBool(Truthy(p.syl.elision))) = Truthy(p.syl.elision)
                /\ Truthy(JBool(Truthy(p.syl.length))) = Truthy(p.syl.length)

(***************************************************************************)
(* C9.  A mask whose prosodic_mask string is empty, or whose word-variant  *)
(* sequence is empty, renders no syllable, no placeholder and no word gap. *)
(* Fails: the units are rendered whatever prosodic_mask holds; with an     *)
(* empty word-variant sequence nothing is rendered.                        *)
(***************************************************************************)
C9_EmptyMaskRendersNothing ==
    (pc = "done" /\ (mask.prosodic_mask = << >> \/ mask.wv = << >>)) =>
        \A i \in DOMAIN parts :
            parts[i].kind \notin {"syl", "placeholder", "word-gap"}

\* the kinds of the parts of the first k units
RECURSIVE ExpectedKinds(_)
ExpectedKinds(k) ==
    IF k = 0 THEN << >>
    ELSE ExpectedKinds(k - 1)
         \o (IF k > 1 THEN << "word-gap" >> ELSE << >>)
         \o (IF units[k].syllables = << >>
             THEN << "placeholder" >>
             ELSE [ i \in 1..Len(units[k].syllables) |-> "syl" ])

KindsOf(ps) == [ i \in DOMAIN ps |-> ps[i].kind ]

(***************************************************************************)
(* C10.  One word gap before every unit but the first, one placeholder for *)
(* every unit without syllables, one column per syllable, in unit order;   *)
(* gaps and placeholders leave the running index alone: the n-th syllable  *)
(* column is tested with the index n (line 255 counts every syllable)      *)
(* wherever placeholder units stand between the syllables.                 *)
(***************************************************************************)
C10_GapsAndPlaceholders ==
    Rendering =>
        LET full == << "open" >> \o ExpectedKinds(Len(units)) \o << "close" >>
        IN  /\ Len(parts) <= Len(full)
            /\ KindsOf(parts) = SubSeq(full, 1, Len(parts))
            /\ pc = "done" => Len(parts) = Len(full)
            /\ global_idx = Len(Columns)
            /\ \A n \in DOMAIN Columns : Columns[n].idx = n
            /\ \A i \in DOMAIN parts :
                  parts[i].kind = "placeholder" =>
                      \E k \in DOMAIN units :
                          /\ units[k].syllables = << >>
                          /\ parts[i].text = units[k].word_text

\* a placeholder unit first, then a word gap and a syllable
C10_Witness ==
    /\ pc = "done"
    /\ Len(parts) >= 5
    /\ parts[2].kind = "placeholder"
    /\ parts[3].kind = "word-gap"
    /\ parts[4].kind = "syl"
    /\ parts[4].idx = 1

=============================================================================
